---- MODULE Spec2Model ----
(***************************************************************************)
(* Model of dump-parser/src/utils.rs: the statement scanner                *)
(* (list_statements) and the stream driver                                 *)
(* (list_sql_queries_from_dump_reader).                                    *)
(*                                                                         *)
(* Bytes are integers (u8).  A &str or Vec<u8> is a sequence of bytes.     *)
(* Rust indices are 0-based and are kept 0-based in the model; Slice       *)
(* converts to the 1-based sequences of TLA+.                              *)
(***************************************************************************)
EXTENDS Integers, Sequences, FiniteSets, TLC

\* ------------------------------------------------------------------------
\* Bytes the code compares against
\* ------------------------------------------------------------------------
NL == 10
QUOTE == 39
LPAREN == 40
RPAREN == 41
DASH == 45
SEMI == 59

\* COMMENT_CHARS (declared, unused by the scanner, which tests each '-' itself)
COMMENT_CHARS == <<DASH, DASH>>

\* stand-in for usize::MAX: larger than every chunk length of the model
UsizeMax == 2147483647

\* ------------------------------------------------------------------------
\* Bounds of the model
\* ------------------------------------------------------------------------
MaxChunk == 5
MaxDump == 4
MaxBreakAt == 1
MaxHex == 4

\* ------------------------------------------------------------------------
\* Text helpers (str slicing and UTF-8)
\* ------------------------------------------------------------------------
\* a UTF-8 continuation byte 10xxxxxx
IsContinuation(b) == b >= 128 /\ b <= 191

\* str::is_char_boundary
IsCharBoundary(query, i) ==
    \/ i = 0
    \/ i = Len(query)
    \/ i < Len(query) /\ ~IsContinuation(query[i + 1])

\* &query[a..b] aborts unless a <= b <= len and both are char boundaries
SliceOk(query, a, b) ==
    /\ a <= b
    /\ b <= Len(query)
    /\ IsCharBoundary(query, a)
    /\ IsCharBoundary(query, b)

\* the bytes of &query[a..b]
Slice(query, a, b) == SubSeq(query, a + 1, b)

\* str::from_utf8(..).is_ok(), for the one- and two-byte encodings
RECURSIVE ValidUtf8From(_, _)
ValidUtf8From(bytes, i) ==
    IF i > Len(bytes) THEN TRUE
    ELSE IF bytes[i] < 128 THEN ValidUtf8From(bytes, i + 1)
    ELSE IF /\ bytes[i] >= 194 /\ bytes[i] <= 223
            /\ i + 1 <= Len(bytes)
            /\ IsContinuation(bytes[i + 1])
         THEN ValidUtf8From(bytes, i + 2)
    ELSE FALSE

ValidUtf8(bytes) == ValidUtf8From(bytes, 1)

\* ------------------------------------------------------------------------
\* enum Statement
\* ------------------------------------------------------------------------
NewLine == [kind |-> "NewLine"]

CommentStatement(s, e, text) ==
    [kind |-> "CommentLine", start_index |-> s, end_index |-> e, statement |-> text]

QueryStatement(v, s, e, text) ==
    [kind |-> "Query", valid |-> v, start_index |-> s, end_index |-> e,
     statement |-> text]

\* ------------------------------------------------------------------------
\* list_statements: the locals of one call
\* ------------------------------------------------------------------------
ScanInit ==
    [sql_statements |-> <<>>,
     stack |-> <<>>,
     is_statement_complete |-> TRUE,
     is_comment_line |-> FALSE,
     start_index |-> 0,
     panicked |-> FALSE]

\* stack.get(0) == Some(&b)
TopIs(stack, b) == Len(stack) > 0 /\ stack[1] = b

\* stack.insert(0, b) / stack.remove(0)
StackPush(stack, b) == <<b>> \o stack
StackPop(stack) == Tail(stack)

\* (query.len() > next_idx) && &query[next_idx..next_idx] == "'"
QuoteEscaped(query, next_idx) ==
    /\ Len(query) > next_idx
    /\ Slice(query, next_idx, next_idx) = <<QUOTE>>

\* arm of b'\''
OnQuote(query, st, idx) ==
    [st EXCEPT
       !.stack = IF TopIs(st.stack, QUOTE)
                 THEN IF QuoteEscaped(query, idx + 1)
                      THEN st.stack
                      ELSE StackPop(st.stack)
                 ELSE StackPush(st.stack, QUOTE),
       !.is_statement_complete = FALSE,
       !.is_comment_line = FALSE]

\* arm of b'('
OnOpenParen(st) ==
    [st EXCEPT
       !.stack = StackPush(st.stack, LPAREN),
       !.is_statement_complete = FALSE,
       !.is_comment_line = FALSE]

\* faulty variants of the b')' arm: one never closes a '(', one leaves no
\* marker for a ')' that closes nothing
OnCloseParen_NeverPops(st) ==
    [st EXCEPT
       !.stack = IF ~TopIs(st.stack, QUOTE) THEN StackPush(st.stack, RPAREN)
                 ELSE st.stack,
       !.is_statement_complete = FALSE,
       !.is_comment_line = FALSE]

OnCloseParen_NoMarker(st) ==
    [st EXCEPT
       !.stack = IF TopIs(st.stack, LPAREN) THEN StackPop(st.stack) ELSE st.stack,
       !.is_statement_complete = FALSE,
       !.is_comment_line = FALSE]

\* arm of b')'
OnCloseParen(st) ==
    [st EXCEPT
       !.stack = IF TopIs(st.stack, LPAREN) THEN StackPop(st.stack)
                 ELSE IF ~TopIs(st.stack, QUOTE) THEN StackPush(st.stack, RPAREN)
                 ELSE st.stack,
       !.is_statement_complete = FALSE,
       !.is_comment_line = FALSE]

\* faulty variant: the text of the comment runs through the newline
OnCommentEnd_WithNewline(query, st, idx) ==
    [st EXCEPT
       !.sql_statements =
           Append(st.sql_statements,
                  CommentStatement(st.start_index, idx,
                                   Slice(query, st.start_index, idx + 1))),
       !.start_index = idx + 1,
       !.stack = <<>>,
       !.is_statement_complete = TRUE,
       !.is_comment_line = FALSE]

\* arm of '\n' while is_comment_line
OnCommentEnd(query, st, idx) ==
    [st EXCEPT
       !.sql_statements =
           Append(st.sql_statements,
                  CommentStatement(st.start_index, idx,
                                   Slice(query, st.start_index, idx))),
       !.start_index = idx + 1,
       !.stack = <<>>,
       !.is_statement_complete = TRUE,
       !.is_comment_line = FALSE]

\* arm of b';'
OnSemicolon(query, st, idx) ==
    [st EXCEPT
       !.sql_statements =
           Append(st.sql_statements,
                  QueryStatement(st.stack = <<>>, st.start_index, idx + 1,
                                 Slice(query, st.start_index, idx + 1))),
       !.start_index = idx + 1,
       !.stack = <<>>,
       !.is_statement_complete = TRUE,
       !.is_comment_line = FALSE]

\* faulty variant: the guard does not ask is_statement_complete
DashSliceTaken_AnyState(query, st, idx) ==
    /\ ~st.is_comment_line
    /\ Len(query) > idx + 1

\* the guard of the b'-' arm up to the slice: once it holds the slice
\* &query[next_idx..next_idx + 1] is taken
DashSliceTaken(query, st, idx) ==
    /\ ~st.is_comment_line
    /\ st.is_statement_complete
    /\ Len(query) > idx + 1

\* one turn of the for loop: the match on byte_char, arms in source order
ScanByte(query, st, idx) ==
    LET byte_char == query[idx + 1]
        next_idx == idx + 1
    IN  IF st.is_comment_line /\ byte_char = NL
          THEN OnCommentEnd(query, st, idx)
        ELSE IF byte_char = QUOTE /\ ~st.is_comment_line
          THEN OnQuote(query, st, idx)
        ELSE IF byte_char = LPAREN /\ ~st.is_comment_line /\ ~TopIs(st.stack, QUOTE)
          THEN OnOpenParen(st)
        ELSE IF byte_char = RPAREN /\ ~st.is_comment_line
          THEN OnCloseParen(st)
        ELSE IF byte_char = DASH /\ DashSliceTaken(query, st, idx)
                /\ ~SliceOk(query, next_idx, next_idx + 1)
          THEN [st EXCEPT !.panicked = TRUE]
        ELSE IF byte_char = DASH /\ DashSliceTaken(query, st, idx)
                /\ Slice(query, next_idx, next_idx + 1) = <<DASH>>
          THEN [st EXCEPT !.is_comment_line = TRUE]
        ELSE IF byte_char = NL /\ ~st.is_comment_line /\ st.is_statement_complete
          THEN [st EXCEPT !.sql_statements = Append(st.sql_statements, NewLine)]
        ELSE IF byte_char = SEMI /\ ~st.is_comment_line /\ ~TopIs(st.stack, QUOTE)
          THEN OnSemicolon(query, st, idx)
        ELSE st

\* let end_index = query.len() - 1, on usize: with overflow checks the
\* subtraction aborts on an empty chunk, without them it wraps
EndIndexAborts(query, overflow_checks) == Len(query) = 0 /\ overflow_checks

EndIndex(query) == IF Len(query) = 0 THEN UsizeMax ELSE Len(query) - 1

\* the flush after the loop
EndFlush(query, st, overflow_checks) ==
    LET end_index == EndIndex(query)
    IN  IF EndIndexAborts(query, overflow_checks)
          THEN [st EXCEPT !.panicked = TRUE]
        ELSE IF st.start_index < end_index
          THEN IF ~st.is_statement_complete
                 THEN [st EXCEPT !.sql_statements =
                          Append(st.sql_statements,
                                 QueryStatement(st.stack = <<>>, st.start_index,
                                                end_index,
                                                Slice(query, st.start_index,
                                                      end_index + 1)))]
               ELSE IF st.is_comment_line
                 THEN [st EXCEPT !.sql_statements =
                          Append(st.sql_statements,
                                 CommentStatement(st.start_index, end_index,
                                                  Slice(query, st.start_index,
                                                        end_index + 1)))]
               ELSE [st EXCEPT !.sql_statements =
                          Append(st.sql_statements, NewLine)]
        ELSE st

\* the for loop from byte idx on
RECURSIVE ScanFrom(_, _, _)
ScanFrom(query, st, idx) ==
    IF idx >= Len(query) \/ st.panicked THEN st
    ELSE ScanFrom(query, ScanByte(query, st, idx), idx + 1)

\* list_statements(query): the final locals; sql_statements is the value
\* returned unless panicked
list_statements(query, overflow_checks) ==
    LET st == ScanFrom(query, ScanInit, 0)
    IN  IF st.panicked THEN st ELSE EndFlush(query, st, overflow_checks)

\* ------------------------------------------------------------------------
\* list_sql_queries_from_dump_reader
\* ------------------------------------------------------------------------
\* the literal of `if count_empty_lines > 49`
EMPTY_LINES_LIMIT == 49

VARIABLES
    dump,               \* the whole byte source handed to the driver
    source,             \* bytes of dump_reader not read yet
    buf_bytes,          \* the pending buffer
    buf_bytes_to_keep,  \* its value at the end of the latest flush branch
    line_buf_bytes,     \* the segment read by the latest read_until
    count_empty_lines,
    calls,              \* texts the handler `query` was invoked with, in order
    break_at,           \* the handler returns Break at this invocation (0: never)
    flushed,            \* chunks passed to list_statements so far, in order
    eof_reads,          \* reads that returned zero bytes
    result,             \* "running", "ok", "read_error" or "panic"
    overflow_checks,    \* build with integer overflow checks (debug) or not
    query,              \* scanner run on its own: the chunk
    idx,                \* scanner run on its own: next byte of the for loop
    scan,               \* scanner run on its own: locals of list_statements
    scan_pc,            \* "idle", "loop", "returned" or "panicked"
    dash_open,          \* history: offsets of each "--" met with a non-empty stack
    hex_s,              \* decode_hex: the argument s
    hex_i,              \* decode_hex: next value of the stepped range
    hex_out,            \* decode_hex: bytes collected so far
    hex_pc              \* "idle", "loop", "ok", "err" or "panicked"

driver_vars ==
    <<dump, source, buf_bytes, buf_bytes_to_keep, line_buf_bytes,
      count_empty_lines, calls, break_at, flushed, eof_reads, result>>

scan_vars == <<query, idx, scan, scan_pc, dash_open>>

hex_vars == <<hex_s, hex_i, hex_out, hex_pc>>

vars == <<driver_vars, scan_vars, hex_vars, overflow_checks>>

\* BufRead::read_until(b'\n', ..): the bytes up to and including the first
\* newline, or all that is left
RECURSIVE FirstNewline(_, _)
FirstNewline(bytes, i) ==
    IF i > Len(bytes) THEN Len(bytes)
    ELSE IF bytes[i] = NL THEN i
    ELSE FirstNewline(bytes, i + 1)

ReadUntilNewline(bytes) == SubSeq(bytes, 1, FirstNewline(bytes, 1))

\* last_real_char_idx, computed from the pending buffer before the append
LastRealCharIdx(buf) ==
    IF Len(buf) > 1 THEN Len(buf) - 2
    ELSE IF Len(buf) = 1 THEN 1
    ELSE 0

\* is_last_line_buf_bytes_by_end_of_query
IsEndOfQuery(buf, line) ==
    LET i == LastRealCharIdx(buf)
    IN  i < Len(line) /\ line[i + 1] = SEMI

\* the condition of the flush branch
IsBoundary(buf, line) == Len(line) <= 1 \/ IsEndOfQuery(buf, line)

\* what the handler answers at its n-th invocation
HandlerReturn(n, brk) == IF n = brk THEN "Break" ELSE "Continue"

\* the text the handler is invoked with for a unit
UnitText(unit) == IF unit.kind = "NewLine" THEN <<NL>> ELSE unit.statement

\* faulty variant: invalid statements go to the handler too
IsForwarded_All(unit) == TRUE

\* the unit goes to the handler, not to buf_bytes_to_keep
IsForwarded(unit) == unit.kind # "Query" \/ unit.valid

\* the for loop over the units: acc = [calls, keep, query_res]; the value
\* the handler returns is dropped, query_res is never assigned
RECURSIVE DispatchFrom(_, _, _, _)
DispatchFrom(units, i, acc, brk) ==
    IF i > Len(units) THEN acc
    ELSE LET unit == units[i]
             answer == HandlerReturn(Len(acc.calls) + 1, brk)
         IN  IF IsForwarded(unit)
               THEN DispatchFrom(units, i + 1,
                        [acc EXCEPT !.calls = Append(acc.calls, UnitText(unit))],
                        brk)
               ELSE DispatchFrom(units, i + 1,
                        [acc EXCEPT !.keep = acc.keep \o unit.statement],
                        brk)

\* the flush condition inside the boundary branch
ShouldScan(buf, count) == Len(buf) > 1 /\ count = 0

\* one turn of the loop whose read succeeded
Iterate ==
    /\ result = "running"
    /\ LET line == ReadUntilNewline(source)
           total_bytes == Len(line)
           buf1 == buf_bytes \o line
           boundary == IsBoundary(buf_bytes, line)
           scanning == boundary /\ ShouldScan(buf1, count_empty_lines)
           decoded == ValidUtf8(buf1)
           st == list_statements(buf1, overflow_checks)
           aborts == scanning /\ (~decoded \/ st.panicked)
           acc0 == [calls |-> calls, keep |-> <<>>, query_res |-> "Continue"]
           acc == IF scanning /\ ~aborts
                    THEN DispatchFrom(st.sql_statements, 1, acc0, break_at)
                    ELSE acc0
           count1 == IF boundary THEN count_empty_lines + 1 ELSE 0
       IN  /\ source' = SubSeq(source, total_bytes + 1, Len(source))
           /\ line_buf_bytes' = line
           /\ eof_reads' = IF total_bytes = 0 THEN eof_reads + 1 ELSE eof_reads
           /\ IF aborts
                THEN /\ result' = "panic"
                     /\ flushed' = IF decoded THEN Append(flushed, buf1) ELSE flushed
                     /\ buf_bytes' = buf1
                     /\ UNCHANGED <<buf_bytes_to_keep, count_empty_lines, calls>>
                ELSE /\ buf_bytes' = IF boundary THEN acc.keep ELSE buf1
                     /\ buf_bytes_to_keep' =
                            IF boundary THEN acc.keep ELSE buf_bytes_to_keep
                     /\ count_empty_lines' = count1
                     /\ calls' = acc.calls
                     /\ flushed' = IF scanning THEN Append(flushed, buf1) ELSE flushed
                     /\ result' = IF count1 > EMPTY_LINES_LIMIT THEN "ok"
                                  ELSE IF acc.query_res = "Break" THEN "ok"
                                  ELSE "running"
    /\ UNCHANGED <<dump, break_at, overflow_checks, scan_vars, hex_vars>>

\* read_until fails: return Err(ReadError(err))
ReadFail ==
    /\ result = "running"
    /\ result' = "read_error"
    /\ UNCHANGED <<dump, source, buf_bytes, buf_bytes_to_keep, line_buf_bytes,
                   count_empty_lines, calls, break_at, flushed, eof_reads,
                   overflow_checks, scan_vars, hex_vars>>

\* ------------------------------------------------------------------------
\* list_statements run on its own, one byte per step
\* ------------------------------------------------------------------------
\* byte idx begins a "--" and the stack holds an open quote or parenthesis
IsDashDashInOpen(q, st, i) ==
    /\ i + 1 < Len(q)
    /\ q[i + 1] = DASH
    /\ q[i + 2] = DASH
    /\ st.stack # <<>>

ScanStep ==
    /\ scan_pc = "loop"
    /\ idx < Len(query)
    /\ scan' = ScanByte(query, scan, idx)
    /\ idx' = idx + 1
    /\ scan_pc' = IF scan'.panicked THEN "panicked" ELSE "loop"
    /\ dash_open' = IF IsDashDashInOpen(query, scan, idx)
                      THEN dash_open \cup {idx} ELSE dash_open
    /\ UNCHANGED <<query, overflow_checks, driver_vars, hex_vars>>

ScanReturn ==
    /\ scan_pc = "loop"
    /\ idx = Len(query)
    /\ scan' = EndFlush(query, scan, overflow_checks)
    /\ scan_pc' = IF scan'.panicked THEN "panicked" ELSE "returned"
    /\ UNCHANGED <<query, idx, dash_open, overflow_checks, driver_vars,
                   hex_vars>>

\* ------------------------------------------------------------------------
\* decode_hex, one element of the stepped range per step
\* ------------------------------------------------------------------------
\* char::to_digit(16) on a byte: 16 stands for None
ToDigit16(b) ==
    IF b >= 48 /\ b <= 57 THEN b - 48
    ELSE IF b >= 97 /\ b <= 102 THEN b - 87
    ELSE IF b >= 65 /\ b <= 70 THEN b - 55
    ELSE 16

\* u8::from_str_radix(src, 16) on a two-byte src: a leading '+' is a sign
\* and is skipped, every other byte has to be a digit; two digits never
\* overflow a u8
FromStrRadix16(src) ==
    LET digits == IF src[1] = 43 THEN Tail(src) ELSE src
        bad == \E k \in 1..Len(digits) : ToDigit16(digits[k]) = 16
        value == IF Len(digits) = 2
                   THEN 16 * ToDigit16(digits[1]) + ToDigit16(digits[2])
                   ELSE ToDigit16(digits[1])
    IN  IF bad THEN [ok |-> FALSE, value |-> 0]
        ELSE [ok |-> TRUE, value |-> value]

\* the closure of map on the next element i of (0..s.len()).step_by(2); the
\* slice &s[i..i + 2] aborts, an Err ends collect at once, an Ok value is
\* pushed
HexStep ==
    /\ hex_pc = "loop"
    /\ hex_i < Len(hex_s)
    /\ IF ~SliceOk(hex_s, hex_i, hex_i + 2)
         THEN hex_pc' = "panicked" /\ UNCHANGED <<hex_i, hex_out>>
         ELSE LET r == FromStrRadix16(Slice(hex_s, hex_i, hex_i + 2))
              IN  IF r.ok
                    THEN /\ hex_out' = Append(hex_out, r.value)
                         /\ hex_i' = hex_i + 2
                         /\ hex_pc' = "loop"
                    ELSE /\ hex_pc' = "err"
                         /\ UNCHANGED <<hex_i, hex_out>>
    /\ UNCHANGED <<hex_s, overflow_checks, driver_vars, scan_vars>>

\* the range is exhausted: collect gives Ok(hex_out)
HexReturn ==
    /\ hex_pc = "loop"
    /\ hex_i >= Len(hex_s)
    /\ hex_pc' = "ok"
    /\ UNCHANGED <<hex_s, hex_i, hex_out, overflow_checks, driver_vars,
                   scan_vars>>

\* ------------------------------------------------------------------------
\* Inputs
\* ------------------------------------------------------------------------
SeqsUpTo(S, n) == UNION {[1..k -> S] : k \in 0..n}

\* bytes of the chunks given to the scanner: the bytes it tests, a letter
\* and the two bytes of a two-byte character
ScanBytes == {NL, QUOTE, LPAREN, RPAREN, DASH, SEMI, 97, 195, 169}

Chunks == {c \in SeqsUpTo(ScanBytes, MaxChunk) : ValidUtf8(c)}

\* bytes of the dumps given to the driver; 255 is never part of UTF-8 text
DumpBytes == {NL, LPAREN, RPAREN, DASH, SEMI, 97, 255}

\* bytes of the strings given to decode_hex: digits, letters in both cases,
\* a letter that is no digit, the sign and a two-byte character
HexBytes == {48, 57, 65, 102, 103, 43, 195, 169}

HexStrings == {h \in SeqsUpTo(HexBytes, MaxHex) : ValidUtf8(h)}

\* a run of blank lines that outlasts the counter
BlankRun == [i \in 1..(EMPTY_LINES_LIMIT + 1) |-> NL]

Dumps ==
    SeqsUpTo(DumpBytes, MaxDump)
      \cup {p \o BlankRun \o s : p \in SeqsUpTo(DumpBytes, 1),
                                 s \in SeqsUpTo(DumpBytes, 1)}

\* ------------------------------------------------------------------------
\* Specifications
\* ------------------------------------------------------------------------
ScanIdle ==
    /\ query = <<>>
    /\ idx = 0
    /\ scan = ScanInit
    /\ scan_pc = "idle"
    /\ dash_open = {}

HexIdle ==
    /\ hex_s = <<>>
    /\ hex_i = 0
    /\ hex_out = <<>>
    /\ hex_pc = "idle"

DriverIdle ==
    /\ dump = <<>>
    /\ source = <<>>
    /\ buf_bytes = <<>>
    /\ buf_bytes_to_keep = <<>>
    /\ line_buf_bytes = <<>>
    /\ count_empty_lines = 0
    /\ calls = <<>>
    /\ break_at = 0
    /\ flushed = <<>>
    /\ eof_reads = 0
    /\ result = "idle"

\* the driver on a dump
Init ==
    /\ dump \in Dumps
    /\ source = dump
    /\ buf_bytes = <<>>
    /\ buf_bytes_to_keep = <<>>
    /\ line_buf_bytes = <<>>
    /\ count_empty_lines = 0
    /\ calls = <<>>
    /\ break_at \in 0..MaxBreakAt
    /\ flushed = <<>>
    /\ eof_reads = 0
    /\ result = "running"
    /\ overflow_checks \in BOOLEAN
    /\ ScanIdle
    /\ HexIdle

Next == Iterate \/ ReadFail

Spec == Init /\ [][Next]_vars

\* the scanner on a chunk
InitScan ==
    /\ query \in Chunks
    /\ idx = 0
    /\ scan = ScanInit
    /\ scan_pc = "loop"
    /\ dash_open = {}
    /\ overflow_checks \in BOOLEAN
    /\ DriverIdle
    /\ HexIdle

NextScan == ScanStep \/ ScanReturn

SpecScan == InitScan /\ [][NextScan]_vars

\* decode_hex on a string
InitHex ==
    /\ hex_s \in HexStrings
    /\ hex_i = 0
    /\ hex_out = <<>>
    /\ hex_pc = "loop"
    /\ overflow_checks \in BOOLEAN
    /\ DriverIdle
    /\ ScanIdle

NextHex == HexStep \/ HexReturn

SpecHex == InitHex /\ [][NextHex]_vars

\* ------------------------------------------------------------------------
\* Properties of the driver (checked under Spec)
\* ------------------------------------------------------------------------
IsPrefix(p, t) == Len(p) <= Len(t) /\ SubSeq(t, 1, Len(p)) = p

Last(t) == t[Len(t)]

\* some invocation of the handler has returned Break
BreakReturned == break_at # 0 /\ Len(calls) >= break_at

\* the units that go to the handler, and the texts it is to receive for them
ForwardedUnits(units) ==
    SelectSeq(units, LAMBDA u : \/ u.kind = "NewLine"
                                \/ u.kind = "CommentLine"
                                \/ (u.kind = "Query" /\ u.valid))

ExpectedTexts(units) ==
    LET f == ForwardedUnits(units)
    IN  [i \in 1..Len(f) |-> IF f[i].kind = "NewLine" THEN <<NL>>
                             ELSE f[i].statement]

\* quotes pair up and parentheses outside quotes nest
RECURSIVE BalancedFrom(_, _, _, _)
BalancedFrom(bytes, i, in_quote, depth) ==
    IF i > Len(bytes) THEN ~in_quote /\ depth = 0
    ELSE IF bytes[i] = QUOTE THEN BalancedFrom(bytes, i + 1, ~in_quote, depth)
    ELSE IF in_quote THEN BalancedFrom(bytes, i + 1, in_quote, depth)
    ELSE IF bytes[i] = LPAREN THEN BalancedFrom(bytes, i + 1, in_quote, depth + 1)
    ELSE IF bytes[i] = RPAREN
      THEN depth > 0 /\ BalancedFrom(bytes, i + 1, in_quote, depth - 1)
    ELSE BalancedFrom(bytes, i + 1, in_quote, depth)

Balanced(bytes) == BalancedFrom(bytes, 1, FALSE, 0)

\* C1: once the handler has returned Break it is not invoked again, no
\* further segment is read and the function has returned.
C1_BreakStopsDriver ==
    BreakReturned => (Len(calls) = break_at /\ result # "running")

\* d is one statement of plain text with balanced delimiters, ended by its
\* only ';' (a final newline may follow), with a line break inside it
IsSplitStatement(d) ==
    LET n == Len(d)
        e == IF n > 0 /\ d[n] = NL THEN n - 1 ELSE n
    IN  /\ e >= 1
        /\ d[e] = SEMI
        /\ \A i \in 1..n : d[i] < 128 /\ d[i] # DASH
        /\ \A i \in 1..(e - 1) : d[i] # SEMI
        /\ Balanced(SubSeq(d, 1, e))
        /\ \E i, j \in 1..(e - 1) : i < j /\ d[i] # NL /\ d[j] = NL

\* C2: a single logical statement split over several segments reaches the
\* handler as exactly one statement text, and the handler receives the same
\* texts as for a scan of the whole text in one chunk.
C2_SplitStatementAsWhole ==
    (result = "ok" /\ IsSplitStatement(dump)) =>
        LET whole == list_statements(dump, overflow_checks).sql_statements
        IN  /\ calls = ExpectedTexts(whole)
            /\ Cardinality({i \in 1..Len(whole) : whole[i].kind = "Query"}) = 1

\* C3: the text retained for an invalid Statement leaves the pending buffer
\* only by being passed to list_statements again at the head of the buffer.
C3_RetainedTextRescanned ==
    [][(result = "running" /\ buf_bytes_to_keep # <<>>) =>
          \/ IsPrefix(buf_bytes_to_keep, buf_bytes')
          \/ /\ Len(flushed') = Len(flushed) + 1
             /\ IsPrefix(buf_bytes_to_keep, Last(flushed'))]_vars

\* C4: in every scan the handler is invoked exactly once per Blank,
\* CommentLine and valid Statement, in order, with "\n" for a Blank and the
\* unit's text otherwise, and never with the text of an invalid Statement;
\* outside a scan it is not invoked.
C4_HandlerOncePerUnit ==
    [][IF Len(flushed') = Len(flushed) + 1 /\ result' # "panic"
         THEN calls' = calls \o ExpectedTexts(
                  list_statements(Last(flushed'), overflow_checks).sql_statements)
         ELSE calls' = calls]_vars

\* a valid Statement and a Blank were delivered and an invalid one retained
C4_Witness ==
    /\ flushed # <<>>
    /\ buf_bytes_to_keep # <<>>
    /\ \E i \in 1..Len(calls) : calls[i] = <<NL>>
    /\ \E i \in 1..Len(calls) : calls[i] # <<NL>>

\* C5: Ok without a Break means the source was read to its end.
C5_OkMeansSourceRead ==
    (result = "ok" /\ ~BreakReturned) => source = <<>>

\* C6: unless a read fails the driver ends by returning Ok, after at most
\* 50 reads at end-of-source.
C6_TerminatesOk ==
    /\ result \notin {"running", "read_error"} => result = "ok"
    /\ eof_reads <= EMPTY_LINES_LIMIT + 1

\* C7: a pending buffer that is not valid UTF-8 at flush time ends the
\* driver with an EncodingError result, not with a crash.
C7_InvalidTextIsEncodingError ==
    (~ValidUtf8(buf_bytes) /\ result \notin {"running", "read_error"}) =>
        result = "encoding_error"

\* ------------------------------------------------------------------------
\* Properties of the scanner (checked under SpecScan)
\* ------------------------------------------------------------------------
\* the Statement units among the units emitted so far
QueryUnits == {i \in 1..Len(scan.sql_statements) :
                   scan.sql_statements[i].kind = "Query"}

EndsWithSemicolon(bytes) == Len(bytes) > 0 /\ Last(bytes) = SEMI

\* some ')' outside quotes has no '(' open before it, or some '(' outside
\* quotes is still open at the end of the text
RECURSIVE ParenFaultFrom(_, _, _, _)
ParenFaultFrom(bytes, i, in_quote, depth) ==
    IF i > Len(bytes) THEN depth > 0
    ELSE IF bytes[i] = QUOTE THEN ParenFaultFrom(bytes, i + 1, ~in_quote, depth)
    ELSE IF in_quote THEN ParenFaultFrom(bytes, i + 1, in_quote, depth)
    ELSE IF bytes[i] = LPAREN THEN ParenFaultFrom(bytes, i + 1, in_quote, depth + 1)
    ELSE IF bytes[i] = RPAREN
      THEN depth = 0 \/ ParenFaultFrom(bytes, i + 1, in_quote, depth - 1)
    ELSE ParenFaultFrom(bytes, i + 1, in_quote, depth)

ParenFault(bytes) == ParenFaultFrom(bytes, 1, FALSE, 0)

\* C8 as stated: for a chunk with balanced quotes and parentheses that ends
\* with ';', every Statement unit emitted is valid.
C8_BalancedChunkAllValid ==
    (scan_pc = "returned" /\ EndsWithSemicolon(query) /\ Balanced(query)) =>
        \A i \in QueryUnits : scan.sql_statements[i].valid

\* C8 amended: for a chunk that ends with ';', every Statement unit whose own
\* text has balanced quotes and parentheses is valid (parentheses and
\* semicolons inside a quoted string do not count).
C8_BalancedStatementValid ==
    (scan_pc = "returned" /\ EndsWithSemicolon(query)) =>
        \A i \in QueryUnits :
            Balanced(scan.sql_statements[i].statement) =>
                scan.sql_statements[i].valid

\* a chunk ending with ';' gave a valid Statement that has a ';' or a
\* parenthesis inside a quoted string
C8_Witness ==
    /\ scan_pc = "returned"
    /\ EndsWithSemicolon(query)
    /\ \E i \in QueryUnits :
          LET u == scan.sql_statements[i]
          IN  /\ u.valid
              /\ Balanced(u.statement)
              /\ \E k \in 2..(Len(u.statement) - 2) :
                    /\ u.statement[k] \in {SEMI, LPAREN, RPAREN}
                    /\ u.statement[k - 1] = QUOTE
                    /\ u.statement[k + 1] = QUOTE

\* C9: a Statement emitted at a ';' whose text has a '(' outside quotes that
\* is not closed, or a ')' outside quotes with no '(' open before it, has
\* valid = false.
C9_ParenFaultInvalid ==
    \A i \in QueryUnits :
        LET u == scan.sql_statements[i]
        IN  (EndsWithSemicolon(u.statement) /\ ParenFault(u.statement)) => ~u.valid

\* one chunk gave a Statement with an unclosed '(' and one with an unmatched ')'
C9_Witness ==
    /\ scan_pc = "returned"
    /\ \E i, j \in QueryUnits :
          LET u == scan.sql_statements[i]
              w == scan.sql_statements[j]
          IN  /\ EndsWithSemicolon(u.statement) /\ ~u.valid
              /\ \E k \in 1..Len(u.statement) : u.statement[k] = LPAREN
              /\ \A k \in 1..Len(u.statement) : u.statement[k] # RPAREN
              /\ EndsWithSemicolon(w.statement) /\ ~w.valid
              /\ \E k \in 1..Len(w.statement) : w.statement[k] = RPAREN
              /\ \A k \in 1..Len(w.statement) : w.statement[k] # LPAREN

\* C10: a quote met while a quote marker is on top of the stack and followed
\* by another quote leaves the quote marker on the stack.
C10_DoubledQuoteKeepsMarker ==
    [][(/\ scan_pc = "loop"
        /\ idx + 1 < Len(query)
        /\ query[idx + 1] = QUOTE
        /\ query[idx + 2] = QUOTE
        /\ ~scan.is_comment_line
        /\ TopIs(scan.stack, QUOTE))
          => TopIs(scan'.stack, QUOTE)]_vars

\* the units of a kind among those emitted so far
UnitsOfKind(kind) ==
    {i \in 1..Len(scan.sql_statements) : scan.sql_statements[i].kind = kind}

\* offset p of the chunk lies inside the text of the unit
TextCovers(unit, p) ==
    unit.start_index <= p /\ p < unit.start_index + Len(unit.statement)

\* C11: a double-dash met while the delimiter stack is non-empty never starts
\* a comment: comment mode is never on for a pending statement that holds
\* such a double-dash, no CommentLine text contains it, and once the scanner
\* has returned both dashes lie in the text of a Statement unit.
C11_DashInOpenIsNoComment ==
    \A p \in dash_open :
        /\ scan.is_comment_line => scan.start_index > p
        /\ \A i \in UnitsOfKind("CommentLine") :
               ~TextCovers(scan.sql_statements[i], p)
        /\ scan_pc = "returned" =>
               \E i \in UnitsOfKind("Query") :
                   /\ TextCovers(scan.sql_statements[i], p)
                   /\ TextCovers(scan.sql_statements[i], p + 1)

\* a parenthesised double-dash ended by a newline, later closed by ';', and
\* a real comment after it in the same chunk
C11_Witness ==
    /\ scan_pc = "returned"
    /\ \E p \in dash_open : query[p] = LPAREN /\ p + 2 < Len(query)
                              /\ query[p + 3] = NL
    /\ UnitsOfKind("Query") # {}

\* the number of quotes among the first n bytes
RECURSIVE QuotesBefore(_, _)
QuotesBefore(bytes, n) ==
    IF n = 0 THEN 0
    ELSE QuotesBefore(bytes, n - 1) + (IF bytes[n] = QUOTE THEN 1 ELSE 0)

OutsideQuote(bytes, i) == QuotesBefore(bytes, i - 1) % 2 = 0

\* positions (from 1) of the semicolons outside quotes
StatementEnds(bytes) ==
    {i \in 1..Len(bytes) : bytes[i] = SEMI /\ OutsideQuote(bytes, i)}

\* the statement boundary before position e (0: start of the text)
PreviousEnd(bytes, e) ==
    LET before == {i \in StatementEnds(bytes) : i < e}
    IN  IF before = {} THEN 0
        ELSE CHOOSE i \in before : \A j \in before : j <= i

\* the text is a run of one or more statements, each ended by ';' and each
\* with balanced delimiters, with no double-dash outside quotes
IsStatementRun(bytes) ==
    /\ Len(bytes) > 0
    /\ Len(bytes) \in StatementEnds(bytes)
    /\ \A e \in StatementEnds(bytes) :
           Balanced(SubSeq(bytes, PreviousEnd(bytes, e) + 1, e))
    /\ \A i \in 1..(Len(bytes) - 1) :
           ~(bytes[i] = DASH /\ bytes[i + 1] = DASH /\ OutsideQuote(bytes, i))

\* the Statement units emitted so far, in order
QuerySeq == SelectSeq(scan.sql_statements, LAMBDA u : u.kind = "Query")

\* one valid Statement per statement of the run, in order, each spanning
\* its own text
MatchesStatementRun(bytes, units) ==
    /\ Len(units) = Cardinality(StatementEnds(bytes))
    /\ \A k \in 1..Len(units) :
           /\ units[k].end_index \in StatementEnds(bytes)
           /\ units[k].start_index = PreviousEnd(bytes, units[k].end_index)
           /\ units[k].statement =
                  SubSeq(bytes, units[k].start_index + 1, units[k].end_index)
           /\ units[k].valid
           /\ k > 1 => units[k].start_index = units[k - 1].end_index

\* C12: for a chunk that is a run of N ';'-terminated balanced statements
\* list_statements returns exactly N Statement units in source order, each
\* valid and spanning its own text, the spans contiguous and disjoint; a
\* ';' inside an open quote ends no statement.
C12_StatementRunSplit ==
    (IsStatementRun(query) /\ scan_pc \in {"returned", "panicked"}) =>
        /\ scan_pc = "returned"
        /\ MatchesStatementRun(query, QuerySeq)

\* C13: list_statements never fails or aborts, whatever the chunk.
C13_ScannerIsTotal == scan_pc # "panicked"

\* ------------------------------------------------------------------------
\* Properties of decode_hex (checked under SpecHex)
\* ------------------------------------------------------------------------
\* the sixteen digits in either case, by value
HexDigitsLower == <<48, 49, 50, 51, 52, 53, 54, 55, 56, 57, 97, 98, 99, 100, 101, 102>>
HexDigitsUpper == <<48, 49, 50, 51, 52, 53, 54, 55, 56, 57, 65, 66, 67, 68, 69, 70>>

IsHexDigit(b) ==
    \E v \in 1..16 : HexDigitsLower[v] = b \/ HexDigitsUpper[v] = b

HexValue(b) ==
    (CHOOSE v \in 1..16 : HexDigitsLower[v] = b \/ HexDigitsUpper[v] = b) - 1

\* a string of an even number of hex digits, and the bytes it encodes
IsEvenHex(h) ==
    Len(h) % 2 = 0 /\ \A k \in 1..Len(h) : IsHexDigit(h[k])

DecodedBytes(h) ==
    [k \in 1..(Len(h) \div 2) |->
        16 * HexValue(h[2 * k - 1]) + HexValue(h[2 * k])]

\* C14: decode_hex returns the decoded bytes for an even number of hex
\* digits and an error value for every other string; it never aborts.
C14_DecodeHexOkOrError ==
    hex_pc \in {"ok", "err", "panicked"} =>
        IF IsEvenHex(hex_s)
          THEN hex_pc = "ok" /\ hex_out = DecodedBytes(hex_s)
          ELSE hex_pc = "err"

\* ------------------------------------------------------------------------
\* Further properties of the driver (checked under Spec)
\* ------------------------------------------------------------------------
\* the step is a turn of the loop whose read succeeded and that did not abort
IsLoopTurn ==
    result = "running" /\ result' \notin {"read_error", "panic"}

\* the segment without its final newline
WithoutNewline(seg) ==
    IF Len(seg) > 0 /\ Last(seg) = NL THEN SubSeq(seg, 1, Len(seg) - 1) ELSE seg

\* the segment is at most one byte long or its last character other than
\* the newline is ';'
SegmentEndsStatement(seg) ==
    \/ Len(seg) <= 1
    \/ EndsWithSemicolon(WithoutNewline(seg))

\* the turn took the flush branch: only there buf_bytes_to_keep is assigned
\* and the counter raised
TookFlushBranch == count_empty_lines' = count_empty_lines + 1

\* C15: in each turn of the loop the boundary condition holds exactly when
\* the segment just read has length <= 1 or its last character other than
\* the newline is ';', whatever the pending buffer holds.
C15_BoundaryFromSegmentOnly ==
    [][IsLoopTurn =>
         /\ IsBoundary(buf_bytes, line_buf_bytes')
                <=> SegmentEndsStatement(line_buf_bytes')
         /\ TookFlushBranch <=> SegmentEndsStatement(line_buf_bytes')]_vars

\* the flush of this turn passed nothing to the handler and retained nothing
IsEmptyFlush == calls' = calls /\ buf_bytes' = <<>>

\* C16: the counter is raised by one on a turn whose boundary condition
\* held with an effectively-empty flush and is zero after every other turn,
\* also after a boundary turn whose flush delivered units or retained text.
C16_CounterCountsEmptyFlushes ==
    [][IsLoopTurn =>
         count_empty_lines' =
             IF IsBoundary(buf_bytes, line_buf_bytes') /\ IsEmptyFlush
               THEN count_empty_lines + 1
               ELSE 0]_vars

\* how often byte b occurs in a text, and in a sequence of texts
Occurrences(b, text) == Cardinality({k \in 1..Len(text) : text[k] = b})

RECURSIVE OccurrencesInAll(_, _)
OccurrencesInAll(b, texts) ==
    IF texts = <<>> THEN 0
    ELSE Occurrences(b, Head(texts)) + OccurrencesInAll(b, Tail(texts))

\* C20: each time the driver scans the pending buffer, every byte of the
\* scanned buffer other than a newline is in a text passed to the handler
\* during that flush or in the bytes the pending buffer is reseeded with.
C20_NoTextLostAtFlush ==
    [][(IsLoopTurn /\ Len(flushed') = Len(flushed) + 1) =>
         LET delivered == SubSeq(calls', Len(calls) + 1, Len(calls'))
         IN  \A b \in DumpBytes \ {NL} :
                 Occurrences(b, Last(flushed'))
                     <= OccurrencesInAll(b, delivered) + Occurrences(b, buf_bytes')]_vars

\* ------------------------------------------------------------------------
\* Further properties of the scanner (checked under SpecScan)
\* ------------------------------------------------------------------------
\* the offset just past the text of the unit
TextEnd(unit) == unit.start_index + Len(unit.statement)

\* the text is the bytes of the chunk from the unit's start_index on
IsTextOfChunk(unit) ==
    /\ TextEnd(unit) <= Len(query)
    /\ unit.statement = SubSeq(query, unit.start_index + 1, TextEnd(unit))

\* C17 as stated: the text of every CommentLine unit is the single comment
\* line, from the double-dash that introduced the comment through the
\* newline that ends it.
C17_CommentTextIsWholeLine ==
    \A i \in UnitsOfKind("CommentLine") :
        LET u == scan.sql_statements[i]
            n == Len(u.statement)
        IN  /\ IsTextOfChunk(u)
            /\ n >= 2 /\ u.statement[1] = DASH /\ u.statement[2] = DASH
            /\ \A k \in 1..(n - 1) : u.statement[k] # NL
            /\ u.statement[n] = NL \/ TextEnd(u) = Len(query)

\* C17 amended: the text of every CommentLine unit runs from the start
\* offset of the pending statement up to, not including, the newline that
\* ends the comment (to the end of the chunk when no newline follows); it
\* holds the double-dash and the rest of that line and never the newline.
C17_CommentTextStopsBeforeNewline ==
    \A i \in UnitsOfKind("CommentLine") :
        LET u == scan.sql_statements[i]
            n == Len(u.statement)
        IN  /\ IsTextOfChunk(u)
            /\ \E k \in 1..(n - 1) :
                   /\ u.statement[k] = DASH /\ u.statement[k + 1] = DASH
                   /\ \A j \in k..n : u.statement[j] # NL
            /\ TextEnd(u) = Len(query) \/ query[TextEnd(u) + 1] = NL

\* a comment closed by its newline whose text begins before the double-dash
C17_Witness ==
    /\ scan_pc = "returned"
    /\ \E i \in UnitsOfKind("CommentLine") :
          /\ TextEnd(scan.sql_statements[i]) < Len(query)
          /\ scan.sql_statements[i].statement[1] # DASH

\* C18: every CommentLine and Statement unit has 0 <= start_index <=
\* end_index <= len(chunk) and its text is chunk[start_index .. end_index),
\* whether emitted in the loop or by the flush at the end of the chunk.
C18_SpansAreHalfOpenRanges ==
    \A i \in UnitsOfKind("CommentLine") \cup UnitsOfKind("Query") :
        LET u == scan.sql_statements[i]
        IN  /\ 0 <= u.start_index
            /\ u.start_index <= u.end_index
            /\ u.end_index <= Len(query)
            /\ u.statement = SubSeq(query, u.start_index + 1, u.end_index)

\* C19: when list_statements returns, a non-empty region after the last
\* unit closed in the loop gets exactly one trailing unit (a Statement with
\* valid = stack empty over the whole region if the statement is incomplete,
\* else a CommentLine over the region if in a comment, else a Blank), and
\* an empty region gets none.
C19_TrailingUnitForRemainder ==
    [][(scan_pc = "loop" /\ scan_pc' = "returned") =>
         LET remainder == SubSeq(query, scan.start_index + 1, Len(query))
             trailing == SubSeq(scan'.sql_statements,
                                Len(scan.sql_statements) + 1,
                                Len(scan'.sql_statements))
         IN  IF remainder = <<>> THEN trailing = <<>>
             ELSE /\ Len(trailing) = 1
                  /\ IF ~scan.is_statement_complete
                       THEN /\ trailing[1].kind = "Query"
                            /\ trailing[1].valid = (scan.stack = <<>>)
                            /\ trailing[1].statement = remainder
                     ELSE IF scan.is_comment_line
                       THEN /\ trailing[1].kind = "CommentLine"
                            /\ trailing[1].statement = remainder
                     ELSE trailing[1].kind = "NewLine"]_vars

\* the last unit is a Statement over the region from start_index to the end
\* of the chunk
HasTrailingStatement ==
    /\ scan.sql_statements # <<>>
    /\ LET u == Last(scan.sql_statements)
       IN  /\ u.kind = "Query"
           /\ u.start_index = scan.start_index
           /\ TextEnd(u) = Len(query)

\* C21: after every byte a non-empty stack implies is_statement_complete
\* false, and is_comment_line implies is_statement_complete true and an
\* empty stack; when list_statements returns with a non-empty stack the
\* flush has emitted a trailing Statement.
C21_ScanStateInvariant ==
    /\ scan.stack # <<>> => ~scan.is_statement_complete
    /\ scan.is_comment_line =>
           (scan.is_statement_complete /\ scan.stack = <<>>)
    /\ (scan_pc = "returned" /\ scan.stack # <<>>) => HasTrailingStatement

====
